---- MODULE Spec2Model ----
(***************************************************************************)
(* Model of onepassword/onepassword.py: a client that builds an argument   *)
(* vector, runs the `op` command-line tool once through subprocess.run,    *)
(* and maps the completed process to decoded JSON, raw bytes or a typed    *)
(* exception.                                                              *)
(*                                                                         *)
(* A Python function is an operator from its arguments and the reply of    *)
(* the external process to a frame: the subprocess.run calls it made, the  *)
(* byte strings it handed to json.loads and its outcome (a returned value  *)
(* or a raised exception).  One action per public operation stores the     *)
(* frame of one call in the variables.                                     *)
(*                                                                         *)
(* Byte strings and texts are written as the interior of their Python      *)
(* literal: "\\xff" is the one byte 0xFF.                                  *)
(***************************************************************************)
EXTENDS Naturals, Sequences, FiniteSets, TLC

VARIABLES handles, op, self, args, reply, calls, decoded, outcome,
          ncalls, nspawns, repeated

vars == <<handles, op, self, args, reply, calls, decoded, outcome,
          ncalls, nspawns, repeated>>

(***************************************************************************)
(* Bounds of the model.                                                    *)
(***************************************************************************)
\* longest list passed as fields, categories or tags
MaxList == 2
\* most client handles alive at once
MaxHandles == 2
\* most calls of the retrieval and listing operations in one run
MaxCalls == 2

(***************************************************************************)
(* Inputs.                                                                 *)
(***************************************************************************)
Vaults == {"Private", "Work", ""}
Items == {"Foo", "Coffee"}
Labels == {"username", "password", "value"}
ListLabels == {"username", "password"}
Categories == {"Login", "Password"}
Tags == {"some_tag", "another_tag"}

RECURSIVE SeqsUpTo(_, _)
SeqsUpTo(S, n) ==
    IF n = 0 THEN {<<>>}
    ELSE LET shorter == SeqsUpTo(S, n - 1)
         IN  shorter \cup {Append(s, e) : s \in shorter, e \in S}

\* An optional argument: <<>> is None (the default), <<x>> is the value x.
None == <<>>
Some(x) == <<x>>
OptLists(S) == {None} \cup {Some(l) : l \in SeqsUpTo(S, MaxList)}

(***************************************************************************)
(* Python values and outcomes.                                             *)
(***************************************************************************)
PyNone == [t |-> "None", v |-> <<>>]
PyStr(s) == [t |-> "str", v |-> s]
PyBytes(b) == [t |-> "bytes", v |-> b]
PyDict(d) == [t |-> "dict", v |-> d]
PyList(l) == [t |-> "list", v |-> l]
PyVersion(release) == [t |-> "Version", v |-> release]
CompletedProcess(r) ==
    [t |-> "CompletedProcess",
     v |-> [returncode |-> r.returncode, stdout |-> r.stdout, stderr |-> r.stderr]]

Return(v) == [kind |-> "return", exc |-> "", msg |-> "", value |-> v]
Raise(e, m) == [kind |-> "raise", exc |-> e, msg |-> m, value |-> PyNone]

Frame(c, d, o) == [calls |-> c, decoded |-> d, outcome |-> o]

(***************************************************************************)
(* The external process: what one subprocess.run call can meet.            *)
(***************************************************************************)
Stdouts ==
    {"{\"value\": \"bar\"}",
     "{\"id\": \"some_valid_uuid\"}",
     "{\"other_key\": \"x\"}",
     "[{\"id\": \"item1\", \"value\": \"bar\"}]",
     "Invalid JSON",
     "\\xff",
     "Test document"}
Stderrs == {"", "I have failed"}
LaunchFailures == {"FileNotFoundError", "PermissionError"}

Launched(rc, out, err) ==
    [launch |-> "ok", returncode |-> rc, stdout |-> out, stderr |-> err]
NotLaunched(e) ==
    [launch |-> e, returncode |-> 0, stdout |-> "", stderr |-> ""]

\* replies to a command run with capture_output=True (bytes)
CmdReplies ==
    {Launched(0, out, "") : out \in Stdouts}
    \cup {Launched(1, out, err) : out \in {"", "{\"value\": \"bar\"}"}, err \in Stderrs}
    \cup {NotLaunched(e) : e \in LaunchFailures}

\* replies to `op --version` run with text=True (str)
VersionTexts == {"2.23.0\n", ""}
ProbeReplies ==
    {Launched(0, out, "") : out \in VersionTexts}
    \cup {Launched(1, "", "I have failed")}
    \cup {NotLaunched(e) : e \in LaunchFailures}

NoReply == NotLaunched("none")

(***************************************************************************)
(* Library functions, by what they do on the values above.                 *)
(***************************************************************************)
\* subprocess.run(cmd, capture_output=True[, text=True])
subprocess_run(cmd, r) ==
    IF r.launch # "ok"
    THEN Frame(<<cmd>>, <<>>, Raise(r.launch, ""))
    ELSE Frame(<<cmd>>, <<>>, Return(CompletedProcess(r)))

\* json.loads(b): the decoded value, or the exception json.loads raises
json_loads(b) ==
    CASE b = "{\"value\": \"bar\"}" ->
            Return(PyDict([value |-> PyStr("bar")]))
      [] b = "{\"id\": \"some_valid_uuid\"}" ->
            Return(PyDict([id |-> PyStr("some_valid_uuid")]))
      [] b = "{\"other_key\": \"x\"}" ->
            Return(PyDict([other_key |-> PyStr("x")]))
      [] b = "[{\"id\": \"item1\", \"value\": \"bar\"}]" ->
            Return(PyList(<<PyDict([id |-> PyStr("item1"), value |-> PyStr("bar")])>>))
      [] b = "\\xff" ->
            Raise("UnicodeDecodeError",
                  "'utf-8' codec can't decode byte 0xff in position 0: invalid start byte")
      [] OTHER ->
            Raise("JSONDecodeError", "Expecting value: line 1 column 1 (char 0)")

\* packaging.version.Version(text)
Version(text) ==
    CASE text = "2.23.0\n" -> Return(PyVersion(<<2, 23, 0>>))
      [] OTHER -> Raise("InvalidVersion", "Invalid version: '" \o text \o "'")

\* obj[key] for a str key
getitem(obj, key) ==
    IF obj.t = "dict"
    THEN IF key \in DOMAIN obj.v
         THEN Return(obj.v[key])
         ELSE Raise("KeyError", "'" \o key \o "'")
    ELSE Raise("TypeError", "")

\* sep.join(l)
RECURSIVE str_join(_, _)
str_join(sep, l) ==
    IF l = <<>> THEN ""
    ELSE IF Len(l) = 1 THEN l[1]
    ELSE l[1] \o sep \o str_join(sep, Tail(l))

\* f"{b}" for a bytes object b
bytes_repr(b) == "b'" \o b \o "'"

\* the truth value of an optional list: None and [] are false
Truthy(opt) == opt # None /\ opt[1] # <<>>

(***************************************************************************)
(* onepassword.py                                                          *)
(***************************************************************************)
Raised(p) == p.outcome.kind = "raise"
Stdout(p) == p.outcome.value.v.stdout

\* the message of line 26, whose backquotes a TLA+ string cannot hold
CLINotFoundMsg == "Cannot find op, do you have 1password-cli installed?"

\* get_op_cli_version with a handler for the wrong exception
get_op_cli_version_uncaught(r) ==
    LET p == subprocess_run(<<"op", "--version">>, r)
    IN  IF Raised(p)
        THEN IF p.outcome.exc = "PermissionError"
             THEN [p EXCEPT !.outcome = Raise("OnePasswordCLINotFound", CLINotFoundMsg)]
             ELSE p
        ELSE [p EXCEPT !.outcome = Version(Stdout(p))]

get_op_cli_version(r) ==
    LET p == subprocess_run(<<"op", "--version">>, r)
    IN  IF Raised(p)
        THEN IF p.outcome.exc = "FileNotFoundError"
             THEN [p EXCEPT !.outcome = Raise("OnePasswordCLINotFound", CLINotFoundMsg)]
             ELSE p
        ELSE [p EXCEPT !.outcome = Version(Stdout(p))]

\* _run_cmd without the test of r.returncode
_run_cmd_unchecked(cmd, r) == subprocess_run(cmd, r)

\* _run_cmd running the command a second time when it exits with an error
_run_cmd_retry(cmd, r) ==
    LET p == subprocess_run(cmd, r)
    IN  IF Raised(p) THEN p
        ELSE IF p.outcome.value.v.returncode # 0
        THEN [p EXCEPT !.calls = <<cmd, cmd>>,
                       !.outcome =
                 Raise("OnePasswordRuntimeError",
                       "Encountered an error when calling subprocess, got: "
                           \o bytes_repr(p.outcome.value.v.stderr))]
        ELSE p

_run_cmd(cmd, r) ==
    LET p == subprocess_run(cmd, r)
    IN  IF Raised(p) THEN p
        ELSE IF p.outcome.value.v.returncode # 0
        THEN [p EXCEPT !.outcome =
                 Raise("OnePasswordRuntimeError",
                       "Encountered an error when calling subprocess, got: "
                           \o bytes_repr(p.outcome.value.v.stderr))]
        ELSE p

\* json.loads(_run_cmd(cmd).stdout), with no handler around it
loads_stdout(p) ==
    IF Raised(p) THEN p
    ELSE [p EXCEPT !.decoded = Append(@, Stdout(p)),
                   !.outcome = json_loads(Stdout(p))]

list_vaults(r) ==
    LET cmd == <<"op", "vault", "list", "--format", "json">>
    IN  loads_stdout(_run_cmd(cmd, r))

\* __init__ binding the default vault whatever vault is given
OnePassword_default(vault, r) ==
    LET p == get_op_cli_version(r)
    IN  IF Raised(p)
        THEN [frame |-> p, handle |-> None]
        ELSE [frame |-> [p EXCEPT !.outcome = Return(PyNone)],
              handle |-> Some([op_cli_version |-> p.outcome.value, vault |-> "Private"])]

\* __init__: the frame of the call and the handle it leaves (None if it raised)
OnePassword(vault, r) ==
    LET p == get_op_cli_version(r)
    IN  IF Raised(p)
        THEN [frame |-> p, handle |-> None]
        ELSE [frame |-> [p EXCEPT !.outcome = Return(PyNone)],
              handle |-> Some([op_cli_version |-> p.outcome.value, vault |-> vault])]

\* the loop of get_item: _fields.append(f"label={field}") for each field
RECURSIVE label_fields(_)
label_fields(fields) ==
    IF fields = <<>> THEN <<>>
    ELSE <<"label=" \o Head(fields)>> \o label_fields(Tail(fields))

\* f"{x}" for a str x: str.__format__ with an empty format is the string
format(x) == x

\* get_item with `if fields is not None:` for `if fields:`
get_item_not_none(this, item, fields, r) ==
    LET base == <<"op", "item", "get", item, "--format", "json", "--vault",
                  format(this.vault)>>
        cmd == IF fields # None
               THEN base \o <<"--fields", str_join(",", label_fields(fields[1]))>>
               ELSE base
        p == _run_cmd(cmd, r)
        q == loads_stdout(p)
    IN  IF Raised(p) THEN p
        ELSE IF Raised(q) /\ q.outcome.exc = "JSONDecodeError"
        THEN [q EXCEPT !.outcome =
                 Raise("OnePasswordJSONError",
                       "Cannot JSON load response from 1Password. Got " \o q.outcome.msg)]
        ELSE q

get_item(this, item, fields, r) ==
    LET base == <<"op", "item", "get", item, "--format", "json", "--vault",
                  format(this.vault)>>
        cmd == IF Truthy(fields)
               THEN base \o <<"--fields", str_join(",", label_fields(fields[1]))>>
               ELSE base
        p == _run_cmd(cmd, r)
        q == loads_stdout(p)
    IN  IF Raised(p) THEN p
        ELSE IF Raised(q) /\ q.outcome.exc = "JSONDecodeError"
        THEN [q EXCEPT !.outcome =
                 Raise("OnePasswordJSONError",
                       "Cannot JSON load response from 1Password. Got " \o q.outcome.msg)]
        ELSE q

\* try: return <p>[key]  except KeyError as e: raise OnePasswordValueNotFound
extract(p, key) ==
    LET g == IF Raised(p) THEN p.outcome ELSE getitem(p.outcome.value, key)
    IN  IF g.kind = "raise" /\ g.exc = "KeyError"
        THEN [p EXCEPT !.outcome =
                 Raise("OnePasswordValueNotFound", "Value not found. Got error: " \o g.msg)]
        ELSE [p EXCEPT !.outcome = g]

get_value(this, item, field, r) ==
    extract(get_item(this, item, Some(<<field>>), r), "value")

\* get_username asking for another label
get_username_user(this, item, r) == get_value(this, item, "user", r)

get_username(this, item, r) == get_value(this, item, "username", r)

get_password(this, item, r) == get_value(this, item, "password", r)

get_uuid(this, item, r) == extract(get_item(this, item, None, r), "id")

\* get_document decoding the output as the JSON operations do
get_document_decoded(this, item, r) ==
    LET cmd == <<"op", "document", "get", item, "--vault", this.vault>>
    IN  loads_stdout(_run_cmd(cmd, r))

get_document(this, item, r) ==
    LET cmd == <<"op", "document", "get", item, "--vault", this.vault>>
        p == _run_cmd(cmd, r)
    IN  IF Raised(p) THEN p
        ELSE [p EXCEPT !.outcome = Return(PyBytes(Stdout(p)))]

\* list_items with the test of tags nested in the test of categories
list_items_nested(this, categories, tags, r) ==
    LET base == <<"op", "items", "list", "--vault", this.vault, "--format", "json">>
        cmd1 == IF Truthy(categories)
                THEN base \o <<"--categories", str_join(",", categories[1])>>
                ELSE base
        cmd2 == IF Truthy(categories) /\ Truthy(tags)
                THEN cmd1 \o <<"--tags", str_join(",", tags[1])>>
                ELSE cmd1
    IN  loads_stdout(_run_cmd(cmd2, r))

list_items(this, categories, tags, r) ==
    LET base == <<"op", "items", "list", "--vault", this.vault, "--format", "json">>
        cmd1 == IF Truthy(categories)
                THEN base \o <<"--categories", str_join(",", categories[1])>>
                ELSE base
        cmd2 == IF Truthy(tags)
                THEN cmd1 \o <<"--tags", str_join(",", tags[1])>>
                ELSE cmd1
    IN  loads_stdout(_run_cmd(cmd2, r))

(***************************************************************************)
(* State machine: one step is one call of a public operation.              *)
(***************************************************************************)
NoArgs ==
    [vault |-> None, item |-> "", field |-> "", fields |-> None,
     categories |-> None, tags |-> None]

\* the retrieval and listing operations, which run the tool through _run_cmd
InvokerOps ==
    {"get_item", "get_value", "get_username", "get_password", "get_uuid",
     "get_document", "list_items", "list_vaults"}

Init ==
    /\ ncalls = 0
    /\ nspawns = 0
    /\ repeated = FALSE
    /\ handles = {}
    /\ op = "none"
    /\ self = None
    /\ args = NoArgs
    /\ reply = NoReply
    /\ calls = <<>>
    /\ decoded = <<>>
    /\ outcome = Return(PyNone)

\* no call is in progress and the caller holds no outcome of an earlier one
Idle == op = "none"

\* the call `name` on `this` with arguments a, to which the process replies r,
\* ends with frame p
Record(name, this, a, r, p) ==
    /\ op' = name
    /\ self' = this
    /\ args' = a
    /\ reply' = r
    /\ calls' = p.calls
    /\ decoded' = p.decoded
    /\ outcome' = p.outcome
    /\ repeated' = (name = op /\ this = self /\ a = args)
    /\ ncalls' = IF name \in InvokerOps THEN ncalls + 1 ELSE ncalls
    /\ nspawns' = IF name \in InvokerOps THEN nspawns + Len(p.calls) ELSE nspawns

GetOpCliVersion ==
    /\ Idle
    /\ \E r \in ProbeReplies :
           Record("get_op_cli_version", None, NoArgs, r, get_op_cli_version(r))
    /\ UNCHANGED handles

ListVaults ==
    /\ Idle
    /\ ncalls < MaxCalls
    /\ \E r \in CmdReplies :
           Record("list_vaults", None, NoArgs, r, list_vaults(r))
    /\ UNCHANGED handles

\* OnePassword() or OnePassword(vault)
Construct ==
    /\ Idle
    /\ Cardinality(handles) < MaxHandles
    /\ \E v \in {None} \cup {Some(x) : x \in Vaults}, r \in ProbeReplies :
           LET vault == IF v = None THEN "Private" ELSE v[1]
               c == OnePassword(vault, r)
           IN  /\ Record("__init__", c.handle, [NoArgs EXCEPT !.vault = v], r, c.frame)
               /\ handles' = IF c.handle = None THEN handles
                             ELSE handles \cup {c.handle[1]}

\* the caller has taken the outcome of the call and goes on
Continue ==
    /\ ~Idle
    /\ op' = "none"
    /\ self' = None
    /\ args' = NoArgs
    /\ reply' = NoReply
    /\ calls' = <<>>
    /\ decoded' = <<>>
    /\ outcome' = Return(PyNone)
    /\ repeated' = FALSE
    /\ UNCHANGED <<handles, ncalls, nspawns>>

GetItem ==
    /\ Idle
    /\ ncalls < MaxCalls
    /\ \E h \in handles, i \in Items, f \in OptLists(ListLabels), r \in CmdReplies :
           Record("get_item", Some(h), [NoArgs EXCEPT !.item = i, !.fields = f], r,
                  get_item(h, i, f, r))
    /\ UNCHANGED handles

GetValue ==
    /\ Idle
    /\ ncalls < MaxCalls
    /\ \E h \in handles, i \in Items, f \in Labels, r \in CmdReplies :
           Record("get_value", Some(h), [NoArgs EXCEPT !.item = i, !.field = f], r,
                  get_value(h, i, f, r))
    /\ UNCHANGED handles

GetUsername ==
    /\ Idle
    /\ ncalls < MaxCalls
    /\ \E h \in handles, i \in Items, r \in CmdReplies :
           Record("get_username", Some(h), [NoArgs EXCEPT !.item = i], r,
                  get_username(h, i, r))
    /\ UNCHANGED handles

GetPassword ==
    /\ Idle
    /\ ncalls < MaxCalls
    /\ \E h \in handles, i \in Items, r \in CmdReplies :
           Record("get_password", Some(h), [NoArgs EXCEPT !.item = i], r,
                  get_password(h, i, r))
    /\ UNCHANGED handles

GetUuid ==
    /\ Idle
    /\ ncalls < MaxCalls
    /\ \E h \in handles, i \in Items, r \in CmdReplies :
           Record("get_uuid", Some(h), [NoArgs EXCEPT !.item = i], r,
                  get_uuid(h, i, r))
    /\ UNCHANGED handles

GetDocument ==
    /\ Idle
    /\ ncalls < MaxCalls
    /\ \E h \in handles, i \in Items, r \in CmdReplies :
           Record("get_document", Some(h), [NoArgs EXCEPT !.item = i], r,
                  get_document(h, i, r))
    /\ UNCHANGED handles

ListItems ==
    /\ Idle
    /\ ncalls < MaxCalls
    /\ \E h \in handles, c \in OptLists(Categories), t \in OptLists(Tags),
          r \in CmdReplies :
           Record("list_items", Some(h), [NoArgs EXCEPT !.categories = c, !.tags = t], r,
                  list_items(h, c, t, r))
    /\ UNCHANGED handles

\* the operation `name` called on `this` with arguments a
Call(name, this, a, r) ==
    CASE name = "get_item" -> get_item(this[1], a.item, a.fields, r)
      [] name = "get_value" -> get_value(this[1], a.item, a.field, r)
      [] name = "get_username" -> get_username(this[1], a.item, r)
      [] name = "get_password" -> get_password(this[1], a.item, r)
      [] name = "get_uuid" -> get_uuid(this[1], a.item, r)
      [] name = "get_document" -> get_document(this[1], a.item, r)
      [] name = "list_items" -> list_items(this[1], a.categories, a.tags, r)
      [] name = "list_vaults" -> list_vaults(r)

\* the caller makes the call it has just made once more, with the same
\* arguments, whether that call returned or raised
Repeat ==
    /\ op \in InvokerOps
    /\ ncalls < MaxCalls
    /\ \E r \in CmdReplies : Record(op, self, args, r, Call(op, self, args, r))
    /\ UNCHANGED handles

Next ==
    \/ ListVaults
    \/ GetOpCliVersion
    \/ Construct
    \/ Continue
    \/ Repeat
    \/ GetItem
    \/ GetValue
    \/ GetUsername
    \/ GetPassword
    \/ GetUuid
    \/ GetDocument
    \/ ListItems

Spec == Init /\ [][Next]_vars

(***************************************************************************)
(* What the properties below speak of.                                     *)
(***************************************************************************)
This == self[1]
LaunchedOk == reply.launch = "ok"
ExitZero == LaunchedOk /\ reply.returncode = 0
ExitNonZero == LaunchedOk /\ reply.returncode # 0
RaisedExc(e) == outcome.kind = "raise" /\ outcome.exc = e
TypedErrors ==
    {"OnePasswordCLINotFound", "OnePasswordValueNotFound",
     "OnePasswordJSONError", "OnePasswordRuntimeError"}

\* l[1], sep, l[2], sep, ..., l[n] in one string, each element after prefix pre
RECURSIVE Joined(_, _, _)
Joined(pre, sep, l) ==
    IF Len(l) = 1 THEN pre \o l[1]
    ELSE Joined(pre, sep, SubSeq(l, 1, Len(l) - 1)) \o sep \o pre \o l[Len(l)]

Flag(name, pre, opt) ==
    IF opt = None \/ opt = Some(<<>>) THEN <<>>
    ELSE <<name, Joined(pre, ",", opt[1])>>

ItemGetArgv(vault, item, fields) ==
    <<"op", "item", "get", item, "--format", "json", "--vault", vault>>
        \o Flag("--fields", "label=", fields)

ItemsListArgv(vault, categories, tags) ==
    <<"op", "items", "list", "--vault", vault, "--format", "json">>
        \o Flag("--categories", "", categories) \o Flag("--tags", "", tags)

DocumentGetArgv(vault, item) == <<"op", "document", "get", item, "--vault", vault>>

VaultListArgv == <<"op", "vault", "list", "--format", "json">>

\* the argument vector the operation of the current call is to pass to the tool
ExpectedArgv ==
    CASE op = "get_item" -> ItemGetArgv(This.vault, args.item, args.fields)
      [] op = "get_value" -> ItemGetArgv(This.vault, args.item, Some(<<args.field>>))
      [] op = "get_username" -> ItemGetArgv(This.vault, args.item, Some(<<"username">>))
      [] op = "get_password" -> ItemGetArgv(This.vault, args.item, Some(<<"password">>))
      [] op = "get_uuid" -> ItemGetArgv(This.vault, args.item, None)
      [] op = "get_document" -> DocumentGetArgv(This.vault, args.item)
      [] op = "list_items" -> ItemsListArgv(This.vault, args.categories, args.tags)
      [] op = "list_vaults" -> VaultListArgv
      [] OTHER -> <<"op", "--version">>

\* the value json.loads gives for the reply, when the call got that far
GotDecoded == ExitZero /\ json_loads(reply.stdout).kind = "return"
Decoded == json_loads(reply.stdout).value
HasEntry(d, k) == d.t = "dict" /\ k \in DOMAIN d.v

(***************************************************************************)
(* Properties.                                                             *)
(***************************************************************************)
\* C1: get_item(I, F) on a client bound to vault V calls the tool exactly
\* once, with op item get I --format json --vault V, followed by --fields and
\* the one token label=f1,label=f2,... exactly when F is a non-empty list.
C1_GetItemArgv ==
    op = "get_item" =>
        /\ Len(calls) = 1
        /\ calls[1] = ItemGetArgv(This.vault, args.item, args.fields)
        /\ args.fields \in {None, Some(<<>>)} => Len(calls[1]) = 8
        /\ args.fields = Some(<<"username", "password">>) =>
               SubSeq(calls[1], 9, 10) = <<"--fields", "label=username,label=password">>

C1_Witness ==
    /\ op = "get_item"
    /\ args.fields = Some(<<"password", "username">>)
    /\ calls = <<<<"op", "item", "get", "Foo", "--format", "json", "--vault", "Work",
                   "--fields", "label=password,label=username">>>>

\* C2: when the tool exits with status 0 and its standard output is not JSON,
\* get_item, list_items and list_vaults raise OnePasswordJSONError.
C2_NonJsonRaisesJSONError ==
    (/\ op \in {"get_item", "list_items", "list_vaults"}
     /\ ExitZero
     /\ json_loads(reply.stdout).kind = "raise")
        => RaisedExc("OnePasswordJSONError")

\* C3: every failure of every operation reaches the caller as one of the four
\* typed errors.
C3_OnlyTypedErrors ==
    outcome.kind = "raise" => outcome.exc \in TypedErrors

\* C4: when the tool is launched through _run_cmd and exits with a non-zero
\* status, the operation raises OnePasswordRuntimeError with the captured
\* standard error in its message, having called the tool once with the
\* expected argument vector and having decoded nothing.
C4_NonZeroExit ==
    (op \in InvokerOps /\ ExitNonZero) =>
        /\ RaisedExc("OnePasswordRuntimeError")
        /\ outcome.msg = "Encountered an error when calling subprocess, got: b'"
                             \o reply.stderr \o "'"
        /\ outcome.value = PyNone
        /\ calls = <<ExpectedArgv>>
        /\ decoded = <<>>

C4_Witness ==
    /\ op = "get_document"
    /\ ExitNonZero
    /\ reply.stdout = "{\"value\": \"bar\"}"
    /\ reply.stderr = "I have failed"
    /\ outcome.msg = "Encountered an error when calling subprocess, got: b'I have failed'"

\* C5: a missing binary makes the version probe raise OnePasswordCLINotFound
\* and makes construction fail without a handle; a handle comes to exist only
\* by a construction whose probe launched the tool and parsed its version.
C5_ProbeGuardsConstruction ==
    /\ [](/\ (op \in {"get_op_cli_version", "__init__"}
                  /\ reply.launch = "FileNotFoundError")
              => (RaisedExc("OnePasswordCLINotFound") /\ self = None)
          /\ \A h \in handles : h.op_cli_version.t = "Version")
    /\ [][\A h \in handles' \ handles :
              /\ op' = "__init__"
              /\ reply'.launch = "ok"
              /\ outcome' = Return(PyNone)
              /\ self' = Some(h)
              /\ Return(h.op_cli_version) = Version(reply'.stdout)]_vars

C5_Witness ==
    /\ op = "__init__"
    /\ reply.launch = "FileNotFoundError"
    /\ RaisedExc("OnePasswordCLINotFound")
    /\ Cardinality(handles) = 1

\* C6: list_items(C, T) calls the tool with op items list --vault V --format
\* json, then --categories and C joined by commas iff C is a non-empty list,
\* then --tags and T joined by commas iff T is a non-empty list.
C6_ListItemsArgv ==
    op = "list_items" =>
        /\ calls = <<ItemsListArgv(This.vault, args.categories, args.tags)>>
        /\ ("--categories" \in {calls[1][k] : k \in 1..Len(calls[1])})
               <=> (args.categories \notin {None, Some(<<>>)})
        /\ ("--tags" \in {calls[1][k] : k \in 1..Len(calls[1])})
               <=> (args.tags \notin {None, Some(<<>>)})

C6_Witness ==
    /\ op = "list_items"
    /\ args.categories = Some(<<>>)
    /\ args.tags = Some(<<"some_tag", "another_tag">>)
    /\ calls = <<<<"op", "items", "list", "--vault", "Private", "--format", "json",
                   "--tags", "some_tag,another_tag">>>>

\* C7: get_value(item, field) calls get_item with that field as the sole
\* selector and, for every result get_item decodes, returns the result's
\* value entry or raises OnePasswordValueNotFound when there is none.
C7_GetValue ==
    op = "get_value" =>
        /\ calls = <<ItemGetArgv(This.vault, args.item, Some(<<args.field>>))>>
        /\ GotDecoded =>
               IF HasEntry(Decoded, "value")
               THEN outcome = Return(Decoded.v["value"])
               ELSE RaisedExc("OnePasswordValueNotFound")

\* C8: get_uuid(item) calls get_item with no field filter and, for every
\* result get_item decodes, returns the result's id entry or raises
\* OnePasswordValueNotFound when there is none.
C8_GetUuid ==
    op = "get_uuid" =>
        /\ calls = <<ItemGetArgv(This.vault, args.item, None)>>
        /\ "--fields" \notin {calls[1][k] : k \in 1..Len(calls[1])}
        /\ GotDecoded =>
               IF HasEntry(Decoded, "id")
               THEN outcome = Return(Decoded.v["id"])
               ELSE RaisedExc("OnePasswordValueNotFound")

\* C9: get_username(item) ends as get_value(item, "username") does on the
\* same reply, and get_password(item) as get_value(item, "password"): the
\* same calls of the tool, the same value returned or error raised.
C9_UsernamePassword ==
    /\ op = "get_username" =>
           /\ Frame(calls, decoded, outcome) = get_value(This, args.item, "username", reply)
           /\ calls[1][10] = "label=username"
    /\ op = "get_password" =>
           /\ Frame(calls, decoded, outcome) = get_value(This, args.item, "password", reply)
           /\ calls[1][10] = "label=password"

C9_Witness ==
    /\ op = "get_username"
    /\ outcome = Return(PyStr("bar"))
    /\ calls = <<<<"op", "item", "get", "Coffee", "--format", "json", "--vault", "Private",
                   "--fields", "label=username">>>>

\* C10: get_document(I) calls the tool with op document get I --vault V and,
\* on exit status 0, returns the captured standard output as the bytes it is,
\* never handing it to a decoder.
C10_GetDocument ==
    op = "get_document" =>
        /\ calls = <<<<"op", "document", "get", args.item, "--vault", This.vault>>>>
        /\ decoded = <<>>
        /\ ExitZero => outcome = Return(PyBytes(reply.stdout))

C10_Witness ==
    /\ op = "get_document"
    /\ ExitZero
    /\ reply.stdout = "\\xff"
    /\ outcome = Return(PyBytes("\\xff"))

\* C11: over any sequence of calls of the retrieval and listing operations
\* the tool has been run once per call, n runs for n calls: the call just
\* made ran it exactly once, whether it failed or repeated the arguments of
\* the call before it, and a repeated call ends as its own reply decides.
C11_OneSpawnPerCall ==
    /\ nspawns = ncalls
    /\ op \in InvokerOps =>
           /\ Len(calls) = 1
           /\ calls[1] = ExpectedArgv
           /\ ExitNonZero => RaisedExc("OnePasswordRuntimeError")
           /\ (op = "get_document" /\ ExitZero) => outcome = Return(PyBytes(reply.stdout))

C11_Witness ==
    /\ repeated
    /\ op = "get_document"
    /\ ExitZero
    /\ outcome = Return(PyBytes("Test document"))
    /\ ncalls = 2
    /\ nspawns = 2

\* the vault name a construction is given
GivenVault == IF args.vault = None THEN "Private" ELSE args.vault[1]

\* C12 as stated: every handle holds a non-empty vault name, the one given at
\* its construction ("Private" when none is given).
C12_VaultNonEmpty ==
    /\ \A h \in handles : h.vault # ""
    /\ (op = "__init__" /\ outcome.kind = "return") => This.vault = GivenVault

\* C12 as amended: a handle holds the vault name given at its construction
\* ("Private" when none is given), be it empty or not; no step other than a
\* construction adds a handle, and no step removes one or changes its vault.
C12_VaultBinding ==
    /\ []((op = "__init__" /\ outcome.kind = "return") =>
              /\ self # None
              /\ This \in handles
              /\ This.vault = GivenVault
              /\ (args.vault = None => This.vault = "Private"))
    /\ [][/\ handles \subseteq handles'
          /\ op' # "__init__" => handles' = handles
          /\ \A h \in handles' \ handles : self' = Some(h)]_vars

C12_Witness ==
    /\ op = "get_value"
    /\ RaisedExc("OnePasswordRuntimeError")
    /\ This.vault = ""
    /\ handles = {[vault |-> "", op_cli_version |-> PyVersion(<<2, 23, 0>>)],
                  [vault |-> "Private", op_cli_version |-> PyVersion(<<2, 23, 0>>)]}

====
